---- MODULE Spec2Model ----
(***************************************************************************)
(* A model of the news sentiment analyser (src/sentiment_analyser.py):     *)
(* NewsSentimentAnalyser.fetch_news, analyse_sentiment, analyse_entity,    *)
(* _get_sentiment_label and create_dashboard, run by main() or by the      *)
(* tests of src/test_analyser.py.                                          *)
(*                                                                         *)
(* Representation.  A Python str is a sequence of one-character strings,   *)
(* so that lower(), strip(), + and the substring test `in` are computed.   *)
(* A float is an exact rational: the scores VADER and TextBlob return are  *)
(* integers counting thousandths, 'overall' and the label thresholds are   *)
(* integers counting ten-thousandths (compound * 0.6 + polarity * 0.4 is   *)
(* compound * 6 + polarity * 4 in those units), and a mean is the record   *)
(* [num, den] standing for num / den ten-thousandths.  Binary rounding of  *)
(* floats is not modelled.                                                 *)
(*                                                                         *)
(* feedparser, VADER, TextBlob and yfinance are libraries outside the      *)
(* repository.  What they answer is the environment of a run: a World      *)
(* gives the entries of each feed, the answer of each sentiment model to   *)
(* each text (or that it raises) and the outcome of each price lookup.     *)
(***************************************************************************)
EXTENDS Integers, Sequences, FiniteSets, TLC

\* ------------------------------------------------------------ Python str

\* str.lower() on one character (ASCII letters).
LowerChar(c) ==
    CASE c = "A" -> "a" [] c = "B" -> "b" [] c = "C" -> "c" [] c = "D" -> "d"
      [] c = "E" -> "e" [] c = "F" -> "f" [] c = "G" -> "g" [] c = "H" -> "h"
      [] c = "I" -> "i" [] c = "J" -> "j" [] c = "K" -> "k" [] c = "L" -> "l"
      [] c = "M" -> "m" [] c = "N" -> "n" [] c = "O" -> "o" [] c = "P" -> "p"
      [] c = "Q" -> "q" [] c = "R" -> "r" [] c = "S" -> "s" [] c = "T" -> "t"
      [] c = "U" -> "u" [] c = "V" -> "v" [] c = "W" -> "w" [] c = "X" -> "x"
      [] c = "Y" -> "y" [] c = "Z" -> "z" [] OTHER -> c

\* str.lower()
lower(s) == [i \in 1..Len(s) |-> LowerChar(s[i])]

\* The Python test `needle in hay` on two str.
In(needle, hay) ==
    \E i \in 0..(Len(hay) - Len(needle)) :
        SubSeq(hay, i + 1, i + Len(needle)) = needle

Whitespace == {" ", "\t", "\n", "\r"}

\* str.strip(): leading and trailing whitespace removed.
strip(s) ==
    LET keep == {i \in 1..Len(s) : s[i] \notin Whitespace}
    IN  IF keep = {} THEN <<>>
        ELSE LET lo == CHOOSE i \in keep : \A j \in keep : i <= j
                 hi == CHOOSE i \in keep : \A j \in keep : j <= i
             IN  SubSeq(s, lo, hi)

\* dict.get(key, default) of a feedparser entry.
Get(entry, key, default) ==
    IF key \in DOMAIN entry THEN entry[key] ELSE default

\* ------------------------------------------------- the analyser's tables

\* The tickers of the source as str values.
Chars ==
       ("AAPL" :> <<"A", "A", "P", "L">>)
    @@ ("MSFT" :> <<"M", "S", "F", "T">>)
    @@ ("GOOGL" :> <<"G", "O", "O", "G", "L">>)
    @@ ("NVDA" :> <<"N", "V", "D", "A">>)
    @@ ("JPM" :> <<"J", "P", "M">>)
    @@ ("BAC" :> <<"B", "A", "C">>)
    @@ ("GS" :> <<"G", "S">>)
    @@ ("HSBA.L" :> <<"H", "S", "B", "A", ".", "L">>)
    @@ ("BP.L" :> <<"B", "P", ".", "L">>)
    @@ ("AZN.L" :> <<"A", "Z", "N", ".", "L">>)
    @@ ("CRM" :> <<"C", "R", "M">>)
    @@ ("SNOW" :> <<"S", "N", "O", "W">>)
    @@ ("TEAM" :> <<"T", "E", "A", "M">>)
    @@ ("ZM" :> <<"Z", "M">>)
    @@ ("DDOG" :> <<"D", "D", "O", "G">>)
    @@ ("SHOP" :> <<"S", "H", "O", "P">>)
    @@ ("SQ" :> <<"S", "Q">>)
    @@ ("PLTR" :> <<"P", "L", "T", "R">>)
    @@ ("COIN" :> <<"C", "O", "I", "N">>)
    @@ ("SPOT" :> <<"S", "P", "O", "T">>)

company_names ==
       ("AAPL" :> <<<<"a", "p", "p", "l", "e">>,
         <<"i", "p", "h", "o", "n", "e">>,
         <<"t", "i", "m", " ", "c", "o", "o", "k">>>>)
    @@ ("MSFT" :> <<<<"m", "i", "c", "r", "o", "s", "o", "f", "t">>,
         <<"w", "i", "n", "d", "o", "w", "s">>,
         <<"s", "a", "t", "y", "a", " ", "n", "a", "d", "e", "l", "l", "a">>>>)
    @@ ("GOOGL" :> <<<<"g", "o", "o", "g", "l", "e">>,
         <<"a", "l", "p", "h", "a", "b", "e", "t">>,
         <<"a", "n", "d", "r", "o", "i", "d">>>>)
    @@ ("NVDA" :> <<<<"n", "v", "i", "d", "i", "a">>,
         <<"j", "e", "n", "s", "e", "n", " ", "h", "u", "a", "n", "g">>,
         <<"g", "p", "u">>>>)
    @@ ("JPM" :> <<<<"j", "p", "m", "o", "r", "g", "a", "n">>,
         <<"j", "p", " ", "m", "o", "r", "g", "a", "n">>,
         <<"j", "a", "m", "i", "e", " ", "d", "i", "m", "o", "n">>>>)
    @@ ("BAC" :> <<<<"b", "a", "n", "k", " ", "o", "f", " ", "a", "m", "e", "r", "i", "c", "a">>,
         <<"b", "o", "f", "a">>>>)
    @@ ("GS" :> <<<<"g", "o", "l", "d", "m", "a", "n", " ", "s", "a", "c", "h", "s">>,
         <<"g", "o", "l", "d", "m", "a", "n">>>>)
    @@ ("HSBA.L" :> <<<<"h", "s", "b", "c">>,
         <<"h", "o", "n", "g", "k", "o", "n", "g", " ", "s", "h", "a", "n", "g", "h", "a", "i">>>>)
    @@ ("BP.L" :> <<<<"b", "r", "i", "t", "i", "s", "h", " ", "p", "e", "t", "r", "o", "l", "e", "u", "m">>,
         <<"b", "p">>>>)
    @@ ("AZN.L" :> <<<<"a", "s", "t", "r", "a", "z", "e", "n", "e", "c", "a">>,
         <<"a", "s", "t", "r", "a", " ", "z", "e", "n", "e", "c", "a">>>>)
    @@ ("CRM" :> <<<<"s", "a", "l", "e", "s", "f", "o", "r", "c", "e">>,
         <<"m", "a", "r", "c", " ", "b", "e", "n", "i", "o", "f", "f">>>>)
    @@ ("SNOW" :> <<<<"s", "n", "o", "w", "f", "l", "a", "k", "e">>>>)
    @@ ("TEAM" :> <<<<"a", "t", "l", "a", "s", "s", "i", "a", "n">>,
         <<"j", "i", "r", "a">>,
         <<"c", "o", "n", "f", "l", "u", "e", "n", "c", "e">>>>)
    @@ ("ZM" :> <<<<"z", "o", "o", "m">>,
         <<"z", "o", "o", "m", " ", "v", "i", "d", "e", "o">>>>)
    @@ ("DDOG" :> <<<<"d", "a", "t", "a", "d", "o", "g">>>>)
    @@ ("SHOP" :> <<<<"s", "h", "o", "p", "i", "f", "y">>>>)
    @@ ("SQ" :> <<<<"s", "q", "u", "a", "r", "e">>,
         <<"b", "l", "o", "c", "k", " ", "i", "n", "c">>,
         <<"j", "a", "c", "k", " ", "d", "o", "r", "s", "e", "y">>>>)
    @@ ("PLTR" :> <<<<"p", "a", "l", "a", "n", "t", "i", "r">>>>)
    @@ ("COIN" :> <<<<"c", "o", "i", "n", "b", "a", "s", "e">>>>)
    @@ ("SPOT" :> <<<<"s", "p", "o", "t", "i", "f", "y">>>>)

\* self.financial_feeds and self.saas_feeds: the feed names, in dict order.
financial_feeds ==
    <<"Yahoo Finance", "Reuters Business", "MarketWatch", "Financial Times">>

saas_feeds ==
    <<"TechCrunch", "The Verge", "Hacker News", "VentureBeat">>

\* self.tracked_entities as __init__ sets it.
DefaultEntities ==
    [stocks |-> <<"AAPL", "MSFT", "GOOGL", "NVDA", "JPM", "BAC", "GS",
                  "HSBA.L", "BP.L", "AZN.L">>,
     saas   |-> <<"CRM", "SNOW", "TEAM", "ZM", "DDOG", "SHOP", "SQ", "PLTR",
                  "COIN", "SPOT">>]

\* test_quick_analysis overrides the lists with 3 stocks and 2 SaaS.
QuickEntities ==
    [stocks |-> <<"AAPL", "MSFT", "HSBA.L">>, saas |-> <<"CRM", "SNOW">>]

\* Other lists a caller can assign the same way.
Registries ==
    { QuickEntities,
      [stocks |-> <<"AAPL">>, saas |-> <<"ZM">>],
      [stocks |-> <<"AAPL", "ZM">>, saas |-> <<>>],
      [stocks |-> <<>>, saas |-> <<"ZM", "CRM">>],
      [stocks |-> <<>>, saas |-> <<>>] }

\* feed.entries[:20]
MaxEntries == 20

\* ------------------------------------------------------- the environment

\* The end-to-end scenario: one feed of each feed set returns the two items; the
\* first text scores positive and the second negative.
WorldEndToEnd ==
    [web |->
           ("Yahoo Finance" :> <<[title |-> <<"A", "p", "p", "l", "e", " ", "b", "e", "a", "t", "s", " ", "e", "a", "r", "n", "i", "n", "g", "s", " ", "e", "s", "t", "i", "m", "a", "t", "e", "s">>, link |-> "n1"],
              [title |-> <<"Z", "o", "o", "m", " ", "f", "a", "c", "e", "s", " ", "u", "s", "e", "r", " ", "d", "e", "c", "l", "i", "n", "e", " ", "a", "m", "i", "d", " ", "c", "o", "m", "p", "e", "t", "i", "t", "i", "o", "n">>, link |-> "n2"]>>)
        @@ ("Reuters Business" :> <<>>)
        @@ ("MarketWatch" :> <<>>)
        @@ ("Financial Times" :> <<>>)
        @@ ("TechCrunch" :> <<[title |-> <<"A", "p", "p", "l", "e", " ", "b", "e", "a", "t", "s", " ", "e", "a", "r", "n", "i", "n", "g", "s", " ", "e", "s", "t", "i", "m", "a", "t", "e", "s">>, link |-> "n1"],
              [title |-> <<"Z", "o", "o", "m", " ", "f", "a", "c", "e", "s", " ", "u", "s", "e", "r", " ", "d", "e", "c", "l", "i", "n", "e", " ", "a", "m", "i", "d", " ", "c", "o", "m", "p", "e", "t", "i", "t", "i", "o", "n">>, link |-> "n2"]>>)
        @@ ("The Verge" :> <<>>)
        @@ ("Hacker News" :> <<>>)
        @@ ("VentureBeat" :> <<>>),
     nlp |->
           (<<"A", "p", "p", "l", "e", " ", "b", "e", "a", "t", "s", " ", "e", "a", "r", "n", "i", "n", "g", "s", " ", "e", "s", "t", "i", "m", "a", "t", "e", "s">> :>
              [vader |-> [raises |-> FALSE, compound |-> 440, pos |-> 420, neg |-> 0, neu |-> 580],
               blob |-> [raises |-> FALSE, polarity |-> 0, subjectivity |-> 0]])
        @@ (<<"Z", "o", "o", "m", " ", "f", "a", "c", "e", "s", " ", "u", "s", "e", "r", " ", "d", "e", "c", "l", "i", "n", "e", " ", "a", "m", "i", "d", " ", "c", "o", "m", "p", "e", "t", "i", "t", "i", "o", "n">> :>
              [vader |-> [raises |-> FALSE, compound |-> -400, pos |-> 0, neg |-> 310, neu |-> 690],
               blob |-> [raises |-> FALSE, polarity |-> 0, subjectivity |-> 0]]),
     prices |->
           ("AAPL" :> "data")
        @@ ("ZM" :> "error")]

\* Feeds with the shapes feedparser can return: entries without a summary, a
\* title or a link, an alias split between title and summary, several aliases in
\* one entry, and a text on which TextBlob raises.
WorldEdge ==
    [web |->
           ("Yahoo Finance" :> <<[title |-> <<"T", "i", "m">>, summary |-> <<"C", "o", "o", "k", " ", "q", "u", "i", "t", "s">>, published_parsed |-> "t1", link |-> "y1"],
              [title |-> <<"i", "P", "h", "o", "n", "e", " ", "a", "n", "d", " ", "W", "i", "n", "d", "o", "w", "s">>, summary |-> <<"A", "p", "p", "l", "e">>, published_parsed |-> "t2", link |-> "y2"],
              [title |-> <<"A", "A", "P", "L", " ", "u", "p">>, link |-> "y3"]>>)
        @@ ("Reuters Business" :> <<[title |-> <<"A", "p", "p", "l", "e", " ", "g", "a", "i", "n", "s">>, summary |-> <<>>, link |-> "r1"],
              [summary |-> <<"a", "p", "p", "l", "e">>, link |-> "r2"],
              [title |-> <<"M", "i", "c", "r", "o", "s", "o", "f", "t", " ", "d", "i", "p", "s">>, link |-> "r3"]>>)
        @@ ("MarketWatch" :> <<[title |-> <<"H", "S", "B", "C", " ", "f", "i", "n", "e", "d">>, summary |-> <<"h", "s", "b", "c">>],
              [title |-> <<"M", "i", "c", "r", "o", "s", "o", "f", "t", " ", "s", "o", "a", "r", "s">>, link |-> "m2"]>>)
        @@ ("Financial Times" :> <<[title |-> <<"A", "p", "p", "l", "e", " ", "p", "o", "s", "t", "s", " ", "r", "e", "c", "o", "r", "d", " ", "p", "r", "o", "f", "i", "t">>, link |-> "f1"],
              [title |-> <<"B", "a", "n", "a", "n", "a", " ", "h", "a", "r", "v", "e", "s", "t", " ", "r", "e", "p", "o", "r", "t">>, link |-> "f2"]>>)
        @@ ("TechCrunch" :> <<[title |-> <<"S", "a", "l", "e", "s", "f", "o", "r", "c", "e", " ", "b", "u", "y", "s">>, link |-> "t1"],
              [title |-> <<"C", "R", "M", " ", "t", "o", "o", "l", "s">>, summary |-> <<"c", "r", "m">>, link |-> "t2"],
              [title |-> <<"S", "t", "o", "r", "m">>, summary |-> <<"s", "n", "o", "w">>, link |-> "t3"]>>)
        @@ ("The Verge" :> <<>>)
        @@ ("Hacker News" :> <<[title |-> <<"S", "n", "o", "w", "f", "l", "a", "k", "e">>, summary |-> <<"S", "N", "O", "W">>, link |-> "h1"]>>)
        @@ ("VentureBeat" :> <<>>),
     nlp |->
           (<<"i", "P", "h", "o", "n", "e", " ", "a", "n", "d", " ", "W", "i", "n", "d", "o", "w", "s", " ", "A", "p", "p", "l", "e">> :>
              [vader |-> [raises |-> FALSE, compound |-> 500, pos |-> 400, neg |-> 0, neu |-> 600],
               blob |-> [raises |-> TRUE]])
        @@ (<<"A", "A", "P", "L", " ", "u", "p">> :>
              [vader |-> [raises |-> FALSE, compound |-> 200, pos |-> 300, neg |-> 0, neu |-> 700],
               blob |-> [raises |-> FALSE, polarity |-> 100, subjectivity |-> 500]])
        @@ (<<"A", "p", "p", "l", "e", " ", "g", "a", "i", "n", "s">> :>
              [vader |-> [raises |-> FALSE, compound |-> 340, pos |-> 600, neg |-> 0, neu |-> 400],
               blob |-> [raises |-> FALSE, polarity |-> 0, subjectivity |-> 0]])
        @@ (<<"M", "i", "c", "r", "o", "s", "o", "f", "t", " ", "s", "o", "a", "r", "s">> :>
              [vader |-> [raises |-> FALSE, compound |-> -500, pos |-> 0, neg |-> 500, neu |-> 500],
               blob |-> [raises |-> FALSE, polarity |-> 500, subjectivity |-> 1000]])
        @@ (<<"C", "R", "M", " ", "t", "o", "o", "l", "s", " ", "c", "r", "m">> :>
              [vader |-> [raises |-> FALSE, compound |-> -100, pos |-> 0, neg |-> 100, neu |-> 900],
               blob |-> [raises |-> FALSE, polarity |-> -100, subjectivity |-> 200]])
        @@ (<<"S", "t", "o", "r", "m", " ", "s", "n", "o", "w">> :>
              [vader |-> [raises |-> FALSE, compound |-> -300, pos |-> 0, neg |-> 400, neu |-> 600],
               blob |-> [raises |-> FALSE, polarity |-> -300, subjectivity |-> 300]])
        @@ (<<"A", "p", "p", "l", "e", " ", "p", "o", "s", "t", "s", " ", "r", "e", "c", "o", "r", "d", " ", "p", "r", "o", "f", "i", "t">> :>
              [vader |-> [raises |-> FALSE, compound |-> 500, pos |-> 500, neg |-> 0, neu |-> 500],
               blob |-> [raises |-> FALSE, polarity |-> 500, subjectivity |-> 500]])
        @@ (<<"S", "n", "o", "w", "f", "l", "a", "k", "e", " ", "S", "N", "O", "W">> :>
              [vader |-> [raises |-> FALSE, compound |-> 100, pos |-> 200, neg |-> 0, neu |-> 800],
               blob |-> [raises |-> TRUE]]),
     prices |->
           ("AAPL" :> "data")
        @@ ("MSFT" :> "empty")
        @@ ("HSBA.L" :> "error")
        @@ ("CRM" :> "data")]

\* Feeds holding a text on which the VADER call raises.
WorldScorer ==
    [web |->
           ("Yahoo Finance" :> <<[title |-> <<"A", "p", "p", "l", "e", " ", "u", "p">>, link |-> "y1"],
              [title |-> <<"A", "p", "p", "l", "e", " ", "?", "?">>, link |-> "y2"],
              [title |-> <<"A", "p", "p", "l", "e", " ", "d", "o", "w", "n">>, link |-> "y3"]>>)
        @@ ("Reuters Business" :> <<>>)
        @@ ("MarketWatch" :> <<>>)
        @@ ("Financial Times" :> <<>>)
        @@ ("TechCrunch" :> <<>>)
        @@ ("The Verge" :> <<[title |-> <<"Z", "M", " ", "?", "?">>, link |-> "v1"],
              [title |-> <<"Z", "M", " ", "o", "k">>, link |-> "v2"]>>)
        @@ ("Hacker News" :> <<>>)
        @@ ("VentureBeat" :> <<>>),
     nlp |->
           (<<"A", "p", "p", "l", "e", " ", "u", "p">> :>
              [vader |-> [raises |-> FALSE, compound |-> 300, pos |-> 400, neg |-> 0, neu |-> 600],
               blob |-> [raises |-> FALSE, polarity |-> 300, subjectivity |-> 500]])
        @@ (<<"A", "p", "p", "l", "e", " ", "?", "?">> :>
              [vader |-> [raises |-> TRUE],
               blob |-> [raises |-> FALSE, polarity |-> 0, subjectivity |-> 0]])
        @@ (<<"A", "p", "p", "l", "e", " ", "d", "o", "w", "n">> :>
              [vader |-> [raises |-> FALSE, compound |-> -300, pos |-> 0, neg |-> 400, neu |-> 600],
               blob |-> [raises |-> FALSE, polarity |-> -300, subjectivity |-> 500]])
        @@ (<<"Z", "M", " ", "?", "?">> :>
              [vader |-> [raises |-> TRUE],
               blob |-> [raises |-> TRUE]])
        @@ (<<"Z", "M", " ", "o", "k">> :>
              [vader |-> [raises |-> FALSE, compound |-> 0, pos |-> 0, neg |-> 0, neu |-> 1000],
               blob |-> [raises |-> FALSE, polarity |-> 0, subjectivity |-> 0]]),
     prices |->
           ("AAPL" :> "data")]

\* Feeds longer than the slice fetch_news takes: 22 entries that all name Apple,
\* and a feed whose only entry naming Apple is its 21st.
WorldLong ==
    [web |->
           ("Yahoo Finance" :> <<[title |-> <<"A", "p", "p", "l", "e">>, link |-> "e1"],
              [title |-> <<"A", "p", "p", "l", "e">>, link |-> "e2"],
              [title |-> <<"A", "p", "p", "l", "e">>, link |-> "e3"],
              [title |-> <<"A", "p", "p", "l", "e">>, link |-> "e4"],
              [title |-> <<"A", "p", "p", "l", "e">>, link |-> "e5"],
              [title |-> <<"A", "p", "p", "l", "e">>, link |-> "e6"],
              [title |-> <<"A", "p", "p", "l", "e">>, link |-> "e7"],
              [title |-> <<"A", "p", "p", "l", "e">>, link |-> "e8"],
              [title |-> <<"A", "p", "p", "l", "e">>, link |-> "e9"],
              [title |-> <<"A", "p", "p", "l", "e">>, link |-> "e10"],
              [title |-> <<"A", "p", "p", "l", "e">>, link |-> "e11"],
              [title |-> <<"A", "p", "p", "l", "e">>, link |-> "e12"],
              [title |-> <<"A", "p", "p", "l", "e">>, link |-> "e13"],
              [title |-> <<"A", "p", "p", "l", "e">>, link |-> "e14"],
              [title |-> <<"A", "p", "p", "l", "e">>, link |-> "e15"],
              [title |-> <<"A", "p", "p", "l", "e">>, link |-> "e16"],
              [title |-> <<"A", "p", "p", "l", "e">>, link |-> "e17"],
              [title |-> <<"A", "p", "p", "l", "e">>, link |-> "e18"],
              [title |-> <<"A", "p", "p", "l", "e">>, link |-> "e19"],
              [title |-> <<"A", "p", "p", "l", "e">>, link |-> "e20"],
              [title |-> <<"A", "p", "p", "l", "e">>, link |-> "e21"],
              [title |-> <<"A", "p", "p", "l", "e">>, link |-> "e22"]>>)
        @@ ("Reuters Business" :> <<[title |-> <<"F", "i", "l", "l", "e", "r">>, link |-> "g1"],
              [title |-> <<"F", "i", "l", "l", "e", "r">>, link |-> "g2"],
              [title |-> <<"F", "i", "l", "l", "e", "r">>, link |-> "g3"],
              [title |-> <<"F", "i", "l", "l", "e", "r">>, link |-> "g4"],
              [title |-> <<"F", "i", "l", "l", "e", "r">>, link |-> "g5"],
              [title |-> <<"F", "i", "l", "l", "e", "r">>, link |-> "g6"],
              [title |-> <<"F", "i", "l", "l", "e", "r">>, link |-> "g7"],
              [title |-> <<"F", "i", "l", "l", "e", "r">>, link |-> "g8"],
              [title |-> <<"F", "i", "l", "l", "e", "r">>, link |-> "g9"],
              [title |-> <<"F", "i", "l", "l", "e", "r">>, link |-> "g10"],
              [title |-> <<"F", "i", "l", "l", "e", "r">>, link |-> "g11"],
              [title |-> <<"F", "i", "l", "l", "e", "r">>, link |-> "g12"],
              [title |-> <<"F", "i", "l", "l", "e", "r">>, link |-> "g13"],
              [title |-> <<"F", "i", "l", "l", "e", "r">>, link |-> "g14"],
              [title |-> <<"F", "i", "l", "l", "e", "r">>, link |-> "g15"],
              [title |-> <<"F", "i", "l", "l", "e", "r">>, link |-> "g16"],
              [title |-> <<"F", "i", "l", "l", "e", "r">>, link |-> "g17"],
              [title |-> <<"F", "i", "l", "l", "e", "r">>, link |-> "g18"],
              [title |-> <<"F", "i", "l", "l", "e", "r">>, link |-> "g19"],
              [title |-> <<"F", "i", "l", "l", "e", "r">>, link |-> "g20"],
              [title |-> <<"A", "p", "p", "l", "e">>, link |-> "g21"]>>)
        @@ ("MarketWatch" :> <<>>)
        @@ ("Financial Times" :> <<>>)
        @@ ("TechCrunch" :> <<>>)
        @@ ("The Verge" :> <<>>)
        @@ ("Hacker News" :> <<>>)
        @@ ("VentureBeat" :> <<>>),
     nlp |->
           (<<"A", "p", "p", "l", "e">> :>
              [vader |-> [raises |-> FALSE, compound |-> 500, pos |-> 500, neg |-> 0, neu |-> 500],
               blob |-> [raises |-> FALSE, polarity |-> 500, subjectivity |-> 500]]),
     prices |->
           ("AAPL" :> "data")]

Worlds == <<WorldEndToEnd, WorldEdge, WorldScorer, WorldLong>>

\* How many calls of feedparser.parse may raise in one run.
MaxFetchFailures == 2

VARIABLES
    world,             \* which World the run meets (index into Worlds)
    tracked_entities,  \* self.tracked_entities: [stocks, saas]
    pc,                \* where the run is: "idle", "loop", "fetch", "score",
                       \* "render", "done", "raised" (an exception escaped
                       \* create_dashboard) or "blocked" (inside a call of
                       \* feedparser.parse that does not return)
    category,          \* create_dashboard: the list being looped, "stocks"/"saas"
    idx,               \* create_dashboard: position in that list
    src,               \* fetch_news: position in feeds.items()
    all_news,          \* fetch_news: all_news, then analyse_entity: news
    art,               \* analyse_entity: position in news
    sentiments,        \* analyse_entity: sentiments
    stock_results,     \* create_dashboard: stock_results
    saas_results,      \* create_dashboard: saas_results
    saved,             \* _save_results: the mappings written to files so far
    exc,               \* the exception that escaped, or "none"
    raised,            \* the feeds whose try block raised for the current entity
    failures,          \* calls of feedparser.parse that raised so far
    arg,               \* the argument of a function applied on its own
    ret                \* and its result

vars == <<world, tracked_entities, pc, category, idx, src, all_news, art,
          sentiments, stock_results, saas_results, saved, exc, raised,
          failures, arg, ret>>

\* ----------------------------------------------------------- fetch_news

\* The variants with the company names added whatever the entity's type.
entity_variants_any_type(entity, entity_type) ==
    <<lower(Chars[entity])>> \o
    (IF entity \in DOMAIN company_names THEN company_names[entity] ELSE <<>>)

\* entity_variants of fetch_news: the lower-cased id, and for entity_type
\* 'stock' the company names of the entity.
entity_variants(entity, entity_type) ==
    <<lower(Chars[entity])>> \o
    (IF entity_type = "stock" /\ entity \in DOMAIN company_names
        THEN company_names[entity] ELSE <<>>)

\* all() in place of any(): every variant must occur.
AllVariants(variants, title, summary) ==
    \A i \in 1..Len(variants) :
        In(variants[i], title) \/ In(variants[i], summary)

\* The test with the summary left out.
AnyVariantInTitle(variants, title, summary) ==
    \E i \in 1..Len(variants) : In(variants[i], title)

\* any(variant in title or variant in summary for variant in entity_variants)
AnyVariant(variants, title, summary) ==
    \E i \in 1..Len(variants) :
        In(variants[i], title) \/ In(variants[i], summary)

\* The dict appended to all_news.
Article(entry, source, entity) ==
    [title     |-> entry.title,
     summary   |-> Get(entry, "summary", <<>>),
     published |-> Get(entry, "published_parsed", ""),
     source    |-> source,
     link      |-> entry.link,
     entity    |-> entity]

\* The loop appending the entry once for every variant that occurs in it.
RECURSIVE ProcessEntriesPerVariant(_, _, _, _, _, _)
ProcessEntriesPerVariant(entries, k, acc, source, entity, entity_type) ==
    IF k > Len(entries) \/ k > MaxEntries
    THEN [news |-> acc, raised |-> FALSE]
    ELSE LET entry == entries[k] IN
         IF "title" \notin DOMAIN entry
         THEN [news |-> acc, raised |-> TRUE]
         ELSE LET title    == lower(entry.title)
                  summary  == lower(Get(entry, "summary", <<>>))
                  variants == entity_variants(entity, entity_type)
                  matching == {i \in 1..Len(variants) :
                                  In(variants[i], title) \/ In(variants[i], summary)}
              IN  IF matching # {}
                  THEN IF "link" \notin DOMAIN entry
                       THEN [news |-> acc, raised |-> TRUE]
                       ELSE ProcessEntriesPerVariant(entries, k + 1,
                                acc \o [i \in 1..Cardinality(matching) |->
                                            Article(entry, source, entity)],
                                source, entity, entity_type)
                  ELSE ProcessEntriesPerVariant(entries, k + 1, acc, source,
                                                entity, entity_type)

\* The loop over all of feed.entries, the slice left out.
RECURSIVE ProcessEntriesAll(_, _, _, _, _, _)
ProcessEntriesAll(entries, k, acc, source, entity, entity_type) ==
    IF k > Len(entries)
    THEN [news |-> acc, raised |-> FALSE]
    ELSE LET entry == entries[k] IN
         IF "title" \notin DOMAIN entry
         THEN [news |-> acc, raised |-> TRUE]
         ELSE LET title   == lower(entry.title)
                  summary == lower(Get(entry, "summary", <<>>))
              IN  IF AnyVariant(entity_variants(entity, entity_type), title, summary)
                  THEN IF "link" \notin DOMAIN entry
                       THEN [news |-> acc, raised |-> TRUE]
                       ELSE ProcessEntriesAll(entries, k + 1,
                                Append(acc, Article(entry, source, entity)),
                                source, entity, entity_type)
                  ELSE ProcessEntriesAll(entries, k + 1, acc, source, entity,
                                         entity_type)

\* The loop over feed.entries[:20] inside the try block, from entry k with
\* all_news = acc: entry.title and entry.link raise AttributeError on an entry
\* without that key, which ends the loop with what was appended so far.
RECURSIVE ProcessEntries(_, _, _, _, _, _)
ProcessEntries(entries, k, acc, source, entity, entity_type) ==
    IF k > Len(entries) \/ k > MaxEntries
    THEN [news |-> acc, raised |-> FALSE]
    ELSE LET entry == entries[k] IN
         IF "title" \notin DOMAIN entry
         THEN [news |-> acc, raised |-> TRUE]
         ELSE LET title   == lower(entry.title)
                  summary == lower(Get(entry, "summary", <<>>))
              IN  IF AnyVariant(entity_variants(entity, entity_type), title, summary)
                  THEN IF "link" \notin DOMAIN entry
                       THEN [news |-> acc, raised |-> TRUE]
                       ELSE ProcessEntries(entries, k + 1,
                                Append(acc, Article(entry, source, entity)),
                                source, entity, entity_type)
                  ELSE ProcessEntries(entries, k + 1, acc, source, entity,
                                      entity_type)

\* feeds = self.financial_feeds if entity_type == 'stock' else self.saas_feeds
FeedsOf(entity_type) ==
    IF entity_type = "stock" THEN financial_feeds ELSE saas_feeds

\* -------------------------------------------------------- analyse_sentiment

\* self.vader.polarity_scores(text): the answer of this World.
Vader(text) ==
    IF text \in DOMAIN Worlds[world].nlp
    THEN Worlds[world].nlp[text].vader
    ELSE [raises |-> FALSE, compound |-> 0, pos |-> 0, neg |-> 0, neu |-> 1000]

\* TextBlob(text).sentiment: the answer of this World.
Blob(text) ==
    IF text \in DOMAIN Worlds[world].nlp
    THEN Worlds[world].nlp[text].blob
    ELSE [raises |-> FALSE, polarity |-> 0, subjectivity |-> 0]

neutral_sentiment ==
    [compound |-> 0, positive |-> 0, negative |-> 0, neutral |-> 1000,
     polarity |-> 0, subjectivity |-> 0, overall |-> 0]

\* The combination with the two weights exchanged.
OverallWeightsExchanged(compound, polarity) == compound * 4 + polarity * 6

\* The combination with the two weights left out.
OverallUnweighted(compound, polarity) == compound * 10 + polarity * 10

\* vader_scores['compound'] * 0.6 + polarity * 0.4, in ten-thousandths.
Overall(compound, polarity) == compound * 6 + polarity * 4

\* The except clause falling back on VADER's compound for the polarity.
CombinedFallbackToCompound(v, b) ==
    LET polarity     == IF b.raises THEN v.compound ELSE b.polarity
        subjectivity == IF b.raises THEN 0 ELSE b.subjectivity
    IN  [compound |-> v.compound, positive |-> v.pos, negative |-> v.neg,
         neutral |-> v.neu, polarity |-> polarity,
         subjectivity |-> subjectivity,
         overall |-> Overall(v.compound, polarity)]

\* combined_score, from the answers v of VADER and b of TextBlob: the except
\* clause around TextBlob sets polarity and subjectivity to 0.
Combined(v, b) ==
    LET polarity     == IF b.raises THEN 0 ELSE b.polarity
        subjectivity == IF b.raises THEN 0 ELSE b.subjectivity
    IN  [compound |-> v.compound, positive |-> v.pos, negative |-> v.neg,
         neutral |-> v.neu, polarity |-> polarity,
         subjectivity |-> subjectivity,
         overall |-> Overall(v.compound, polarity)]

\* The scorer testing the text for emptiness as it was passed, not stripped.
analyse_sentiment_unstripped(text, v, b) ==
    IF text = <<>>
    THEN [raised |-> FALSE, score |-> neutral_sentiment, called |-> {}]
    ELSE IF v.raises
         THEN [raised |-> TRUE, called |-> {"vader"}]
         ELSE [raised |-> FALSE, score |-> Combined(v, b),
               called |-> {"vader", "textblob"}]

\* analyse_sentiment(text) when VADER answers v and TextBlob answers b to the
\* stripped text: [raised |-> TRUE] when the VADER call, which no try block
\* covers, raises; else the score returned.  Neither model is called on a
\* text that is empty once stripped; `called` names the models called.
analyse_sentiment_on(text, v, b) ==
    LET t == strip(text) IN
    IF t = <<>>
    THEN [raised |-> FALSE, score |-> neutral_sentiment, called |-> {}]
    ELSE IF v.raises
         THEN [raised |-> TRUE, called |-> {"vader"}]
         ELSE [raised |-> FALSE, score |-> Combined(v, b),
               called |-> {"vader", "textblob"}]

\* analyse_sentiment(text) in the World of the run.
analyse_sentiment(text) ==
    analyse_sentiment_on(text, Vader(strip(text)), Blob(strip(text)))

\* ----------------------------------------------------------- analyse_entity

\* fetch_stock_data(symbol): None when the history is empty or yfinance raises.
fetch_stock_data(symbol) ==
    LET p == Worlds[world].prices
        outcome == IF symbol \in DOMAIN p THEN p[symbol] ELSE "empty"
    IN  IF outcome = "data" THEN "data" ELSE "None"

RECURSIVE SumOverall(_)
SumOverall(ss) ==
    IF ss = <<>> THEN 0 ELSE ss[1].overall + SumOverall(Tail(ss))

\* The mean with the first score left out of the sum.
avg_sentiment_skipping_first(ss) ==
    IF Len(ss) > 0 THEN [num |-> SumOverall(Tail(ss)), den |-> Len(ss)]
    ELSE [num |-> 0, den |-> 1]

\* np.mean([s['overall'] for s in sentiments]) if sentiments else 0
avg_sentiment_of(ss) ==
    IF Len(ss) > 0 THEN [num |-> SumOverall(ss), den |-> Len(ss)]
    ELSE [num |-> 0, den |-> 1]

\* The thresholds of _get_sentiment_label, in ten-thousandths.
VeryPositiveMin == 3000
PositiveMin == 1000
VeryNegativeMax == -3000
NegativeMax == -1000

\* The classifier with the boundaries on the other side (> for >=, < for <=).
get_sentiment_label_exclusive(score) ==
    IF score.num > VeryPositiveMin * score.den THEN "Very Positive"
    ELSE IF score.num > PositiveMin * score.den THEN "Positive"
    ELSE IF score.num < VeryNegativeMax * score.den THEN "Very Negative"
    ELSE IF score.num < NegativeMax * score.den THEN "Negative"
    ELSE "Neutral"

\* _get_sentiment_label(score), score = num / den with den > 0.
get_sentiment_label(score) ==
    IF score.num >= VeryPositiveMin * score.den THEN "Very Positive"
    ELSE IF score.num >= PositiveMin * score.den THEN "Positive"
    ELSE IF score.num <= VeryNegativeMax * score.den THEN "Very Negative"
    ELSE IF score.num <= NegativeMax * score.den THEN "Negative"
    ELSE "Neutral"

\* The dict with the label taken from the sum of the scores, not their mean.
EntityResultLabelOfSum(entity, entity_type, ss) ==
    [entity          |-> entity,
     type            |-> entity_type,
     sentiments      |-> ss,
     price_data      |-> IF entity_type = "stock"
                         THEN fetch_stock_data(entity) ELSE "None",
     avg_sentiment   |-> avg_sentiment_of(ss),
     sentiment_label |-> get_sentiment_label([num |-> SumOverall(ss), den |-> 1])]

\* The dict with the price looked up whatever the entity's type.
EntityResultPriceForAll(entity, entity_type, ss) ==
    [entity          |-> entity,
     type            |-> entity_type,
     sentiments      |-> ss,
     price_data      |-> fetch_stock_data(entity),
     avg_sentiment   |-> avg_sentiment_of(ss),
     sentiment_label |-> get_sentiment_label(avg_sentiment_of(ss))]

\* The dict analyse_entity returns.
EntityResult(entity, entity_type, ss) ==
    [entity          |-> entity,
     type            |-> entity_type,
     sentiments      |-> ss,
     price_data      |-> IF entity_type = "stock"
                         THEN fetch_stock_data(entity) ELSE "None",
     avg_sentiment   |-> avg_sentiment_of(ss),
     sentiment_label |-> get_sentiment_label(avg_sentiment_of(ss))]

\* ---------------------------------------------------------- _save_results

\* ---------------------------------------------------- _plot_market_sentiment

\* The sum of the avg_sentiment of the results, as a fraction.
RECURSIVE SumAvg(_)
SumAvg(rs) ==
    IF rs = <<>> THEN [num |-> 0, den |-> 1]
    ELSE LET a == rs[1].avg_sentiment
             t == SumAvg(Tail(rs))
         IN  [num |-> a.num * t.den + t.num * a.den, den |-> a.den * t.den]

\* The results that have articles: [r ... for r in results if r['sentiments']]
WithArticles(results) == SelectSeq(results, LAMBDA r : r.sentiments # <<>>)

\* np.mean over a list that is not empty.
MeanAvg(rs) == [num |-> SumAvg(rs).num, den |-> SumAvg(rs).den * Len(rs)]

\* The upper ends of the gauge's categories, in ten-thousandths.
GaugeVeryNegativeMax == -3000
GaugeNegativeMax == -1000
GaugeNeutralMax == 1000
GaugePositiveMax == 3000

\* The if/elif chain of the gauge on a score num / den, den > 0.
GaugeCategory(score) ==
    IF score.num <= GaugeVeryNegativeMax * score.den THEN "Very Negative"
    ELSE IF score.num <= GaugeNegativeMax * score.den THEN "Negative"
    ELSE IF score.num <= GaugeNeutralMax * score.den THEN "Neutral"
    ELSE IF score.num <= GaugePositiveMax * score.den THEN "Positive"
    ELSE "Very Positive"

\* The category _plot_market_sentiment highlights: "none" when results is
\* empty (it returns before drawing).  When no result has articles np.mean of
\* the empty list is nan, every <= comparison is False and the else branch
\* highlights Very Positive.
market_sentiment_gauge(results) ==
    IF results = <<>> THEN "none"
    ELSE IF WithArticles(results) = <<>> THEN "Very Positive"
    ELSE GaugeCategory(MeanAvg(WithArticles(results)))

\* The sources taken from the first scored article only.
SourcesOfFirst(ss) == IF ss = <<>> THEN {} ELSE {ss[1].article.source}

SourcesOf(ss) == {ss[i].article.source : i \in 1..Len(ss)}

SavedEntity(r) ==
    [entity |-> r.entity, avg_sentiment |-> r.avg_sentiment,
     sentiment_label |-> r.sentiment_label,
     num_articles |-> Len(r.sentiments),
     sources |-> SourcesOf(r.sentiments)]

RECURSIVE CountArticles(_)
CountArticles(rs) ==
    IF rs = <<>> THEN 0 ELSE Len(rs[1].sentiments) + CountArticles(Tail(rs))

save_results(stocks, saas) ==
    [summary |-> [total_stocks_analysed |-> Len(stocks),
                  total_saas_analysed |-> Len(saas),
                  total_articles |-> CountArticles(stocks \o saas)],
     stock_results |-> [i \in 1..Len(stocks) |-> SavedEntity(stocks[i])],
     saas_results |-> [i \in 1..Len(saas) |-> SavedEntity(saas[i])]]

\* ------------------------------------------------------------- the run

CurrentList == tracked_entities[category]
CurrentEntity == CurrentList[idx]
\* Both loops of create_dashboard passing 'stock' to analyse_entity.
CurrentTypeAlwaysStock == "stock"

CurrentType == IF category = "stocks" THEN "stock" ELSE "saas"
CurrentFeeds == FeedsOf(CurrentType)

Init ==
    /\ world \in DOMAIN Worlds
    /\ tracked_entities = DefaultEntities
    /\ pc = "idle"
    /\ category = "stocks"
    /\ idx = 1
    /\ src = 1
    /\ all_news = <<>>
    /\ art = 1
    /\ sentiments = <<>>
    /\ stock_results = <<>>
    /\ saas_results = <<>>
    /\ saved = <<>>
    /\ exc = "none"
    /\ raised = {}
    /\ failures = 0
    /\ arg = "none"
    /\ ret = "none"

\* test_analyser.py: analyser.tracked_entities['stocks'] = ..., ['saas'] = ...
OverrideEntities ==
    /\ pc = "idle"
    /\ tracked_entities = DefaultEntities
    /\ \E reg \in Registries : tracked_entities' = reg
    /\ UNCHANGED <<world, pc, category, idx, src, all_news, art, sentiments,
                   stock_results, saas_results, saved, exc, raised, failures,
                   arg, ret>>

\* create_dashboard is entered: stock_results = [] and the first loop starts.
CreateDashboard ==
    /\ pc = "idle"
    /\ pc' = "loop"
    /\ category' = "stocks"
    /\ idx' = 1
    /\ stock_results' = <<>>
    /\ saas_results' = <<>>
    /\ UNCHANGED <<world, tracked_entities, src, all_news, art, sentiments,
                   saved, exc, raised, failures, arg, ret>>

\* The loop takes the next entity: analyse_entity calls fetch_news, which
\* starts with all_news = [].
BeginEntity ==
    /\ pc = "loop"
    /\ idx <= Len(CurrentList)
    /\ pc' = "fetch"
    /\ src' = 1
    /\ all_news' = <<>>
    /\ sentiments' = <<>>
    /\ art' = 1
    /\ raised' = {}
    /\ UNCHANGED <<world, tracked_entities, category, idx, stock_results,
                   saas_results, saved, exc, failures, arg, ret>>

\* The loop over the stocks is exhausted: the loop over the SaaS list starts.
NextList ==
    /\ pc = "loop"
    /\ idx > Len(CurrentList)
    /\ category = "stocks"
    /\ category' = "saas"
    /\ idx' = 1
    /\ UNCHANGED <<world, tracked_entities, pc, src, all_news, art, sentiments,
                   stock_results, saas_results, saved, exc, raised, failures,
                   arg, ret>>

\* fetch_news returning from inside the except clause: a feed that raised is
\* the last one fetched.
AfterFeedReturnOnError ==
    /\ src' = src + 1
    /\ pc' = IF src = Len(CurrentFeeds) \/ raised' # raised
             THEN "score" ELSE "fetch"
    /\ art' = 1

\* After a feed, fetch_news goes to the next one, or returns all_news to
\* analyse_entity, whose loop over the articles starts.
AfterFeed ==
    /\ src' = src + 1
    /\ pc' = IF src = Len(CurrentFeeds) THEN "score" ELSE "fetch"
    /\ art' = 1

\* One pass of the loop over feeds.items(): feedparser.parse returns and the
\* entries are processed (which may raise on an entry, see ProcessEntries).
FetchFromSource ==
    /\ pc = "fetch"
    /\ LET source == CurrentFeeds[src]
           r == ProcessEntries(Worlds[world].web[source], 1, all_news, source,
                               CurrentEntity, CurrentType)
       IN  /\ all_news' = r.news
           /\ raised' = IF r.raised THEN raised \cup {source} ELSE raised
    /\ AfterFeed
    /\ UNCHANGED <<world, tracked_entities, category, idx, sentiments,
                   stock_results, saas_results, saved, exc, failures, arg, ret>>

\* One pass of the loop over feeds.items() in which feedparser.parse raises:
\* the except clause prints and the loop goes on.
FetchRaises ==
    /\ pc = "fetch"
    /\ failures < MaxFetchFailures
    /\ failures' = failures + 1
    /\ raised' = raised \cup {CurrentFeeds[src]}
    /\ AfterFeed
    /\ UNCHANGED <<world, tracked_entities, category, idx, all_news, sentiments,
                   stock_results, saas_results, saved, exc, arg, ret>>

\* One pass of the loop over feeds.items() in which feedparser.parse(url),
\* called with no timeout, does not return: the run stays in the call.
FetchBlocks ==
    /\ pc = "fetch"
    /\ pc' = "blocked"
    /\ UNCHANGED <<world, tracked_entities, category, idx, src, all_news, art,
                   sentiments, stock_results, saas_results, saved, exc, raised,
                   failures, arg, ret>>

\* The text analyse_entity scores for an article.
TextOf(article) == article.title \o <<" ">> \o article.summary

\* One pass of the loop over news: the article is scored and appended.
AnalyseArticle ==
    /\ pc = "score"
    /\ art <= Len(all_news)
    /\ LET article == all_news[art]
           r == analyse_sentiment(TextOf(article))
       IN  /\ ~r.raised
           /\ sentiments' = Append(sentiments, r.score @@ [article |-> article])
    /\ art' = art + 1
    /\ UNCHANGED <<world, tracked_entities, pc, category, idx, src, all_news,
                   stock_results, saas_results, saved, exc, raised, failures,
                   arg, ret>>

\* One pass of the loop over news in which analyse_sentiment raises: neither
\* analyse_entity nor create_dashboard catches, so the run ends in main's
\* except clause with no result returned.
AnalyseArticleRaises ==
    /\ pc = "score"
    /\ art <= Len(all_news)
    /\ analyse_sentiment(TextOf(all_news[art])).raised
    /\ pc' = "raised"
    /\ exc' = "scorer"
    /\ UNCHANGED <<world, tracked_entities, category, idx, src, all_news, art,
                   sentiments, stock_results, saas_results, saved, raised,
                   failures, arg, ret>>

\* The rest of analyse_entity (price data, mean, label) and the append of its
\* result to the list of the loop.
FinishEntity ==
    /\ pc = "score"
    /\ art > Len(all_news)
    /\ LET result == EntityResult(CurrentEntity, CurrentType, sentiments)
       IN  IF category = "stocks"
           THEN /\ stock_results' = Append(stock_results, result)
                /\ UNCHANGED saas_results
           ELSE /\ saas_results' = Append(saas_results, result)
                /\ UNCHANGED stock_results
    /\ idx' = idx + 1
    /\ pc' = "loop"
    /\ UNCHANGED <<world, tracked_entities, category, src, all_news, art,
                   sentiments, saved, exc, raised, failures, arg, ret>>

\* Both loops are done: the panels are drawn.
StartRender ==
    /\ pc = "loop"
    /\ idx > Len(CurrentList)
    /\ category = "saas"
    /\ pc' = "render"
    /\ UNCHANGED <<world, tracked_entities, category, idx, src, all_news, art,
                   sentiments, stock_results, saas_results, saved, exc, raised,
                   failures, arg, ret>>

\* The insights table skipping "Most News Coverage" when there is no result:
\* the panels are drawn, and the empty mapping is written.
RenderEmptyAndSave ==
    /\ pc = "render"
    /\ stock_results \o saas_results = <<>>
    /\ saved' = Append(saved, save_results(stock_results, saas_results))
    /\ pc' = "done"
    /\ UNCHANGED <<world, tracked_entities, category, idx, src, all_news, art,
                   sentiments, stock_results, saas_results, exc, raised,
                   failures, arg, ret>>

\* _create_insights_table: max() over stock_results + saas_results raises
\* ValueError when both are empty, before _save_results is reached.
RenderRaises ==
    /\ pc = "render"
    /\ stock_results \o saas_results = <<>>
    /\ pc' = "raised"
    /\ exc' = "ValueError"
    /\ UNCHANGED <<world, tracked_entities, category, idx, src, all_news, art,
                   sentiments, stock_results, saas_results, saved, raised,
                   failures, arg, ret>>

\* The scored articles of a summary in the opposite order.
ReversedEvidence(r) ==
    [r EXCEPT !.sentiments =
        [i \in 1..Len(r.sentiments) |-> r.sentiments[Len(r.sentiments) + 1 - i]]]

\* The panels ranking in place: each summary's scored articles are left in
\* the opposite order when the mapping is written.
RenderRankingInPlace ==
    /\ pc = "render"
    /\ stock_results \o saas_results # <<>>
    /\ stock_results' = [k \in 1..Len(stock_results) |->
                             ReversedEvidence(stock_results[k])]
    /\ saas_results' = [k \in 1..Len(saas_results) |->
                            ReversedEvidence(saas_results[k])]
    /\ saved' = Append(saved, save_results(stock_results, saas_results))
    /\ pc' = "done"
    /\ UNCHANGED <<world, tracked_entities, category, idx, src, all_news, art,
                   sentiments, exc, raised, failures, arg, ret>>

\* The panels are drawn, _save_results writes the mapping and create_dashboard
\* returns stock_results, saas_results.
RenderAndSave ==
    /\ pc = "render"
    /\ stock_results \o saas_results # <<>>
    /\ saved' = Append(saved, save_results(stock_results, saas_results))
    /\ pc' = "done"
    /\ UNCHANGED <<world, tracked_entities, category, idx, src, all_news, art,
                   sentiments, stock_results, saas_results, exc, raised,
                   failures, arg, ret>>

Next ==
    \/ OverrideEntities
    \/ CreateDashboard
    \/ BeginEntity
    \/ NextList
    \/ FetchFromSource
    \/ FetchRaises
    \/ FetchBlocks
    \/ AnalyseArticle
    \/ AnalyseArticleRaises
    \/ FinishEntity
    \/ StartRender
    \/ RenderRaises
    \/ RenderAndSave

Spec == Init /\ [][Next]_vars

\* ------------------------------------------- functions applied on their own

\* The scores the classifier is applied to: num / den ten-thousandths.
MaxNum == 10000
MaxDen == 3

ScoreArgs == [num : -MaxNum..MaxNum, den : 1..MaxDen]

InitRest ==
    /\ world = 1
    /\ tracked_entities = DefaultEntities
    /\ category = "stocks"
    /\ idx = 1
    /\ src = 1
    /\ all_news = <<>>
    /\ art = 1
    /\ sentiments = <<>>
    /\ stock_results = <<>>
    /\ saas_results = <<>>
    /\ saved = <<>>
    /\ exc = "none"
    /\ raised = {}
    /\ failures = 0

InitLabel ==
    /\ InitRest
    /\ pc = "call"
    /\ arg \in ScoreArgs
    /\ ret = "none"

\* analyser._get_sentiment_label(score), as test_sentiment_analysis calls it.
ApplyLabel ==
    /\ pc = "call"
    /\ ret' = get_sentiment_label(arg)
    /\ pc' = "returned"
    /\ UNCHANGED <<world, tracked_entities, category, idx, src, all_news, art,
                   sentiments, stock_results, saas_results, saved, exc, raised,
                   failures, arg>>

NextLabel == ApplyLabel

SpecLabel == InitLabel /\ [][NextLabel]_vars

\* The texts and model answers analyse_sentiment is applied to: scores on a
\* grid of 2 * Grid + 1 values over [-1, 1], in thousandths.
Grid == 4

GridValues == {(k * 1000) \div Grid : k \in -Grid..Grid}

ScoreTexts ==
    { <<>>, <<" ", "\t">>, <<" ", "o", "k", " ">>, <<"u", "p", "\n">> }

VaderAnswers ==
    {[raises |-> TRUE]} \cup
    {[raises |-> FALSE, compound |-> c, pos |-> s[1], neg |-> s[2], neu |-> s[3]] :
        c \in GridValues,
        s \in {<<0, 0, 1000>>, <<400, 100, 500>>, <<0, 1000, 0>>}}

BlobAnswers ==
    {[raises |-> TRUE]} \cup
    {[raises |-> FALSE, polarity |-> q, subjectivity |-> s] :
        q \in GridValues, s \in {0, 500, 1000}}

InitScore ==
    /\ InitRest
    /\ pc = "call"
    /\ arg \in [text : ScoreTexts, vader : VaderAnswers, blob : BlobAnswers]
    /\ ret = "none"

\* analyser.analyse_sentiment(text), as test_sentiment_analysis calls it.
ApplyScore ==
    /\ pc = "call"
    /\ ret' = analyse_sentiment_on(arg.text, arg.vader, arg.blob)
    /\ pc' = "returned"
    /\ UNCHANGED <<world, tracked_entities, category, idx, src, all_news, art,
                   sentiments, stock_results, saas_results, saved, exc, raised,
                   failures, arg>>

NextScore == ApplyScore

SpecScore == InitScore /\ [][NextScore]_vars

\* The results the gauge is applied to: up to MaxGaugeResults summaries, each
\* without articles (avg_sentiment 0) or with one article whose overall score
\* is a multiple of 0.1 between -GaugeGrid and GaugeGrid tenths.
MaxGaugeResults == 2
GaugeGrid == 5

GaugeEvidence ==
    {<<>>} \cup {<<[overall |-> k * 1000]>> : k \in -GaugeGrid..GaugeGrid}

GaugeResults ==
    {[sentiments |-> ss, avg_sentiment |-> avg_sentiment_of(ss)] :
        ss \in GaugeEvidence}

GaugeArgs == UNION {[1..n -> GaugeResults] : n \in 0..MaxGaugeResults}

InitGauge ==
    /\ InitRest
    /\ pc = "call"
    /\ arg \in GaugeArgs
    /\ ret = "none"

\* self._plot_market_sentiment(ax1, stock_results + saas_results, colors)
ApplyGauge ==
    /\ pc = "call"
    /\ ret' = market_sentiment_gauge(arg)
    /\ pc' = "returned"
    /\ UNCHANGED <<world, tracked_entities, category, idx, src, all_news, art,
                   sentiments, stock_results, saas_results, saved, exc, raised,
                   failures, arg>>

NextGauge == ApplyGauge

SpecGauge == InitGauge /\ [][NextGauge]_vars

\* The scorer applied on its own and the run, side by side: a behaviour is one
\* call of analyse_sentiment or one run of create_dashboard.
InitScoreOrRun == InitScore \/ Init

NextScoreOrRun == NextScore \/ Next

SpecScoreOrRun == InitScoreOrRun /\ [][NextScoreOrRun]_vars

\* ---------------------------------------------------------------- claims

Labels == {"Very Positive", "Positive", "Neutral", "Negative", "Very Negative"}

\* C1: the classifier returns one of the five labels for every score, and the
\* label is decided by the score alone: Very Positive iff score >= 0.3,
\* Positive iff 0.1 <= score < 0.3, Neutral iff -0.1 < score < 0.1, Negative
\* iff -0.3 < score <= -0.1, Very Negative iff score <= -0.3; so 0.3 is Very
\* Positive, 0.0999 Neutral, -0.1 Negative and -0.3 Very Negative.
C1_LabelPartition ==
    pc = "returned" =>
        LET n == arg.num
            d == arg.den
        IN  /\ ret \in Labels
            /\ (ret = "Very Positive") <=> (n >= 3000 * d)
            /\ (ret = "Positive") <=> (1000 * d <= n /\ n < 3000 * d)
            /\ (ret = "Neutral") <=> (-1000 * d < n /\ n < 1000 * d)
            /\ (ret = "Negative") <=> (-3000 * d < n /\ n <= -1000 * d)
            /\ (ret = "Very Negative") <=> (n <= -3000 * d)
            /\ (n = 3000 /\ d = 1) => ret = "Very Positive"
            /\ (n = 999 /\ d = 1) => ret = "Neutral"
            /\ (n = -1000 /\ d = 1) => ret = "Negative"
            /\ (n = -3000 /\ d = 1) => ret = "Very Negative"

\* The classifier has answered Negative at exactly -0.1.
C1_Witness ==
    /\ pc = "returned"
    /\ arg = [num |-> -1000, den |-> 1]
    /\ ret = "Negative"

\* What create_dashboard has collected so far, stocks first.
AllResults == stock_results \o saas_results

\* An entity was just analysed: its result is the last of the current list and
\* the locals of analyse_entity still hold what the result was built from.
JustAnalysed == pc = "loop" /\ idx > 1

LastResult ==
    IF category = "stocks" THEN stock_results[Len(stock_results)]
    ELSE saas_results[Len(saas_results)]

\* The sum of the first n overall scores of ss.
RECURSIVE OverallUpTo(_, _)
OverallUpTo(ss, n) ==
    IF n = 0 THEN 0 ELSE OverallUpTo(ss, n - 1) + ss[n].overall

\* C2: in every entity summary avg_sentiment is the arithmetic mean of the
\* overall scores of the summary's scored items (avg * count = sum), it is 0
\* when there are none (the denominator is never 0), the scored items are
\* exactly the matched articles in order, and the saved article count is
\* their number.
C2_AvgIsMeanOfEvidence ==
    /\ \A k \in 1..Len(AllResults) :
            LET r == AllResults[k]
                n == Len(r.sentiments)
            IN  /\ r.avg_sentiment.den > 0
                /\ n = 0 => r.avg_sentiment.num = 0
                /\ n > 0 => r.avg_sentiment.num * n
                               = OverallUpTo(r.sentiments, n) * r.avg_sentiment.den
    /\ JustAnalysed =>
            /\ LastResult.sentiments = sentiments
            /\ Len(sentiments) = Len(all_news)
            /\ \A i \in 1..Len(sentiments) : sentiments[i].article = all_news[i]
    /\ pc = "done" =>
            /\ \A k \in 1..Len(stock_results) :
                   saved[1].stock_results[k].num_articles
                       = Len(stock_results[k].sentiments)
            /\ \A k \in 1..Len(saas_results) :
                   saved[1].saas_results[k].num_articles
                       = Len(saas_results[k].sentiments)

\* A summary over several items with different scores, and one over none.
C2_Witness ==
    /\ \E k \in 1..Len(AllResults) :
           /\ Len(AllResults[k].sentiments) >= 2
           /\ AllResults[k].sentiments[1].overall
                  # AllResults[k].sentiments[2].overall
    /\ \E k \in 1..Len(AllResults) : Len(AllResults[k].sentiments) = 0

\* C3: in every entity summary the label is the classifier's label of the
\* summary's avg_sentiment; an entity with no matched article gets
\* avg_sentiment 0, label Neutral and no items, and no exception is raised in
\* producing that summary.
C3_LabelOfAvg ==
    /\ \A k \in 1..Len(AllResults) :
            LET r == AllResults[k]
            IN  /\ r.sentiment_label = get_sentiment_label(r.avg_sentiment)
                /\ Len(r.sentiments) = 0 =>
                       /\ r.avg_sentiment.num = 0
                       /\ r.sentiment_label = "Neutral"
    /\ (JustAnalysed /\ all_news = <<>>) =>
            /\ exc = "none"
            /\ LastResult.entity = CurrentList[idx - 1]
            /\ Len(LastResult.sentiments) = 0

\* A summary with no items, labelled Neutral, beside one whose mean sits on
\* the boundary 0.1 and is labelled Positive.
C3_Witness ==
    /\ \E k \in 1..Len(AllResults) :
           /\ Len(AllResults[k].sentiments) = 0
           /\ AllResults[k].sentiment_label = "Neutral"
    /\ \E k \in 1..Len(AllResults) :
           /\ Len(AllResults[k].sentiments) = 2
           /\ AllResults[k].avg_sentiment = [num |-> 2000, den |-> 2]
           /\ AllResults[k].sentiment_label = "Positive"

\* fetch_news or the scoring loop of analyse_entity is at work on CurrentEntity.
InAnalysis == pc \in {"fetch", "score"}

\* The feeds fetch_news is through with for the current entity.
DoneFeeds ==
    IF pc = "fetch" THEN {CurrentFeeds[i] : i \in 1..(src - 1)}
    ELSE {CurrentFeeds[i] : i \in 1..Len(CurrentFeeds)}

\* The entries of a feed that fetch_news looks at.
Examined(source) ==
    LET entries == Worlds[world].web[source]
    IN  SubSeq(entries, 1, IF Len(entries) < 20 THEN Len(entries) ELSE 20)

\* The entry of that feed is among the matched articles.
InNews(entry, source) ==
    /\ "link" \in DOMAIN entry
    /\ \E i \in 1..Len(all_news) :
           all_news[i].source = source /\ all_news[i].link = entry.link

\* Some lower-cased alias occurs in the lower-cased title + " " + summary.
SurfaceMatch(entry, entity, entity_type) ==
    LET aliases == entity_variants(entity, entity_type)
        surface == lower(entry.title \o <<" ">> \o Get(entry, "summary", <<>>))
    IN  \E i \in 1..Len(aliases) : In(lower(aliases[i]), surface)

\* Some lower-cased alias occurs in the lower-cased title, or in the
\* lower-cased summary.
FieldMatch(entry, entity, entity_type) ==
    LET aliases == entity_variants(entity, entity_type)
    IN  \E i \in 1..Len(aliases) :
           \/ In(lower(aliases[i]), lower(entry.title))
           \/ In(lower(aliases[i]), lower(Get(entry, "summary", <<>>)))

\* C4 as stated: an examined entry (of a feed that did not raise) is matched
\* iff some alias occurs in the lower-cased surface title + " " + summary.
C4_SurfaceMatch ==
    InAnalysis =>
        \A source \in DoneFeeds \ raised :
            \A k \in 1..Len(Examined(source)) :
                InNews(Examined(source)[k], source)
                    <=> SurfaceMatch(Examined(source)[k], CurrentEntity, CurrentType)

\* C4 as amended: an examined entry (of a feed that did not raise) is matched
\* iff some lower-cased alias occurs in the lower-cased title or in the
\* lower-cased summary, each tested on its own.
C4_FieldMatch ==
    InAnalysis =>
        \A source \in DoneFeeds \ raised :
            \A k \in 1..Len(Examined(source)) :
                InNews(Examined(source)[k], source)
                    <=> FieldMatch(Examined(source)[k], CurrentEntity, CurrentType)

\* AAPL against the feeds of WorldEdge: "Apple posts record profit" matched,
\* "Banana harvest report" not, and "Tim" + "Cook quits" not matched although
\* the surface "tim cook quits" holds the alias "tim cook".
C4_Witness ==
    /\ pc = "score"
    /\ world = 2
    /\ CurrentEntity = "AAPL"
    /\ raised = {"Reuters Business"}
    /\ \E i \in 1..Len(all_news) : all_news[i].link = "f1"
    /\ \A i \in 1..Len(all_news) : all_news[i].link \notin {"f2", "y1"}
    /\ SurfaceMatch(Worlds[2].web["Yahoo Finance"][1], "AAPL", "stock")

\* The category create_dashboard analyses a tracked entity under.
TypeOf(entity) ==
    IF \E i \in 1..Len(tracked_entities.stocks) : tracked_entities.stocks[i] = entity
    THEN "stock" ELSE "saas"

HasAlias(entity, alias) ==
    LET aliases == entity_variants(entity, TypeOf(entity))
    IN  \E i \in 1..Len(aliases) : aliases[i] = alias

\* The summaries of an entity among the results.
ResultsOf(entity) ==
    {k \in 1..Len(AllResults) : AllResults[k].entity = entity}

\* The end-to-end scenario: the registry holds AAPL and ZM and nothing else,
\* their alias sets hold "aapl", "apple" and "zm", "zoom", one feed returns the
\* two items and none raises.
EndToEndScenario ==
    /\ world = 1
    /\ failures = 0
    /\ Len(tracked_entities.stocks) + Len(tracked_entities.saas) = 2
    /\ \A e \in {"AAPL", "ZM"} :
           \E c \in {"stocks", "saas"} :
               \E i \in 1..Len(tracked_entities[c]) : tracked_entities[c][i] = e
    /\ HasAlias("AAPL", <<"a", "a", "p", "l">>)
    /\ HasAlias("AAPL", <<"a", "p", "p", "l", "e">>)
    /\ HasAlias("ZM", <<"z", "m">>)
    /\ HasAlias("ZM", <<"z", "o", "o", "m">>)

\* C5: in the end-to-end scenario the run ends with one summary for AAPL and
\* one for ZM, each over exactly one article, AAPL's avg_sentiment > 0 and
\* ZM's < 0.
C5_EndToEnd ==
    (pc = "done" /\ EndToEndScenario) =>
        /\ \A e \in {"AAPL", "ZM"} :
               /\ Cardinality(ResultsOf(e)) = 1
               /\ \A k \in ResultsOf(e) : Len(AllResults[k].sentiments) = 1
        /\ \A k \in ResultsOf("AAPL") : AllResults[k].avg_sentiment.num > 0
        /\ \A k \in ResultsOf("ZM") : AllResults[k].avg_sentiment.num < 0

\* The scenario has run to its end, each entity matched by its own headline.
C5_Witness ==
    /\ pc = "done"
    /\ EndToEndScenario
    /\ \E k \in ResultsOf("AAPL") : AllResults[k].sentiments[1].article.link = "n1"
    /\ \E k \in ResultsOf("ZM") : AllResults[k].sentiments[1].article.link = "n2"

\* C6 as stated: no article of a feed whose try block raised for the entity is
\* among the entity's matched articles, nor in the summary built from them.
C6_FailedFeedGivesNothing ==
    /\ InAnalysis =>
           \A i \in 1..Len(all_news) : all_news[i].source \notin raised
    /\ JustAnalysed =>
           \A i \in 1..Len(LastResult.sentiments) :
               LastResult.sentiments[i].article.source \notin raised

\* The entity whose articles all_news holds.
AnalysedEntity == IF JustAnalysed THEN CurrentList[idx - 1] ELSE CurrentEntity

\* Every feed of the entity has been gone through; all_news is what they gave.
AllFeedsDone == pc = "score" \/ JustAnalysed

C7_Isolated ==
    /\ AllFeedsDone =>
           \A source \in DoneFeeds \ raised :
               \A k \in 1..Len(Examined(source)) :
                   FieldMatch(Examined(source)[k], AnalysedEntity, CurrentType)
                       => InNews(Examined(source)[k], source)
    /\ JustAnalysed =>
           /\ LastResult.entity = AnalysedEntity
           /\ Len(LastResult.sentiments) = Len(all_news)
           /\ \A i \in 1..Len(all_news) :
                  LastResult.sentiments[i].article = all_news[i]
    /\ pc = "done" =>
           /\ Len(stock_results) = Len(tracked_entities.stocks)
           /\ Len(saas_results) = Len(tracked_entities.saas)
    /\ pc = "raised" => (exc = "scorer" \/ exc = "ValueError")

C7_FeedFailureStep ==
    (pc = "fetch" /\ raised' # raised) =>
        /\ exc' = "none"
        /\ src' = src + 1
        /\ pc' = (IF src = Len(CurrentFeeds) THEN "score" ELSE "fetch")
        /\ idx' = idx
        /\ category' = category
        /\ stock_results' = stock_results
        /\ saas_results' = saas_results
        /\ \A i \in 1..Len(all_news) :
               i <= Len(all_news') /\ all_news'[i] = all_news[i]

C8_ScorerFailureIsolated ==
    \A i \in 1..Len(all_news) :
        analyse_sentiment(TextOf(all_news[i])).raised =>
            ~(pc = "raised" /\ exc = "scorer")

\* The ids of the summaries in a result list.
EntitiesOf(results) == [k \in 1..Len(results) |-> results[k].entity]

\* C9 as stated: however a run ends, it has produced exactly one summary per
\* entity of the registry, the stocks in list order and the SaaS in list order.
C9_OneSummaryPerEntity ==
    pc \in {"done", "raised"} =>
        /\ EntitiesOf(stock_results) = tracked_entities.stocks
        /\ EntitiesOf(saas_results) = tracked_entities.saas

\* C10: when TextBlob raises on a text that is not empty once stripped (and
\* VADER has answered), analyse_sentiment raises nothing and returns polarity
\* 0, subjectivity 0, VADER's compound, pos, neg and neu as they are, and
\* overall = compound * 0.6 (6 ten-thousandths per thousandth of compound).
C10_BlobFailureDegrades ==
    (/\ pc = "returned"
     /\ strip(arg.text) # <<>>
     /\ ~arg.vader.raises
     /\ arg.blob.raises) =>
        /\ ~ret.raised
        /\ ret.score.polarity = 0
        /\ ret.score.subjectivity = 0
        /\ ret.score.compound = arg.vader.compound
        /\ ret.score.positive = arg.vader.pos
        /\ ret.score.negative = arg.vader.neg
        /\ ret.score.neutral = arg.vader.neu
        /\ ret.score.overall = 6 * arg.vader.compound

\* TextBlob has raised on " ok " while VADER answered compound -1: the score
\* returned has overall -0.6.
C10_Witness ==
    /\ pc = "returned"
    /\ arg.text = <<" ", "o", "k", " ">>
    /\ ~arg.vader.raises
    /\ arg.vader.compound = -1000
    /\ arg.blob.raises
    /\ ~ret.raised
    /\ ret.score.overall = -6000

\* The characters of a text that str.strip() removes at both ends.
OnlyWhitespace(text) == \A i \in 1..Len(text) : text[i] \in Whitespace

\* C11: scoring a text that is empty or only whitespace returns exactly the
\* fixed neutral score (compound 0, positive 0, negative 0, neutral 1,
\* polarity 0, subjectivity 0, overall 0) and calls neither model: the call
\* returns it whatever the models would have answered, also when they would
\* have raised.
C11_EmptyTextIsNeutral ==
    (pc = "returned" /\ OnlyWhitespace(arg.text)) =>
        /\ ~ret.raised
        /\ ret.called = {}
        /\ ret.score = [compound |-> 0, positive |-> 0, negative |-> 0,
                        neutral |-> 1000, polarity |-> 0, subjectivity |-> 0,
                        overall |-> 0]

\* A text of a blank and a tab was scored while VADER would have raised and
\* TextBlob would have answered polarity 1: the neutral score came back.
C11_Witness ==
    /\ pc = "returned"
    /\ arg.text = <<" ", "\t">>
    /\ arg.vader.raises
    /\ ~arg.blob.raises
    /\ arg.blob.polarity = 1000
    /\ ~ret.raised
    /\ ret.score.neutral = 1000

\* C12: for every text that is not empty once stripped, the overall of the
\* score returned is compound * 0.6 + polarity * 0.4 of the compound and the
\* polarity of that same score (in ten-thousandths: 6 and 4 times the
\* thousandths).
C12_OverallIsWeightedSum ==
    (pc = "returned" /\ ~OnlyWhitespace(arg.text) /\ ~ret.raised) =>
        /\ ret.score.overall
               = 6 * ret.score.compound + 4 * ret.score.polarity
        /\ ret.score.compound = arg.vader.compound
        /\ ret.score.polarity
               = (IF arg.blob.raises THEN 0 ELSE arg.blob.polarity)

\* "up\n" was scored with compound 0.5 and polarity -1: overall is -0.1.
C12_Witness ==
    /\ pc = "returned"
    /\ arg.text = <<"u", "p", "\n">>
    /\ ~arg.vader.raises
    /\ ~arg.blob.raises
    /\ arg.vader.compound = 500
    /\ arg.blob.polarity = -1000
    /\ ~ret.raised
    /\ ret.score.overall = -1000

\* C13: with compound and polarity in [-1, 1] (or an empty text, or TextBlob
\* failing) the overall score returned lies in [-1, 1]; hence every score
\* held by a run and every entity's avg_sentiment lie in [-1, 1].
C13_OverallInRange ==
    /\ (pc = "returned" /\ ~ret.raised) =>
           /\ ret.score.overall >= -10000
           /\ ret.score.overall <= 10000
    /\ pc \notin {"call", "returned"} =>
           /\ \A i \in 1..Len(sentiments) :
                  /\ sentiments[i].overall >= -10000
                  /\ sentiments[i].overall <= 10000
           /\ \A k \in 1..Len(AllResults) :
                  LET avg == AllResults[k].avg_sentiment
                  IN  /\ avg.den > 0
                      /\ avg.num >= -10000 * avg.den
                      /\ avg.num <= 10000 * avg.den

\* The two ends of the range are reached: compound 1 with polarity 1, and
\* compound -1 with polarity -1.
C13_Witness ==
    /\ pc = "returned"
    /\ ~ret.raised
    /\ ~OnlyWhitespace(arg.text)
    /\ ~arg.blob.raises
    /\ arg.vader.compound = arg.blob.polarity
    /\ ret.score.overall \in {-10000, 10000}

\* A run holds a summary over several scored items whose mean is not 0.
C13_WitnessRun ==
    \E k \in 1..Len(AllResults) :
        /\ Len(AllResults[k].sentiments) >= 2
        /\ AllResults[k].avg_sentiment.num # 0

\* The registry names no entity at all.
RegistryEmpty ==
    tracked_entities.stocks = <<>> /\ tracked_entities.saas = <<>>

\* C14: with an empty registry the run does not end as a success with empty
\* output: create_dashboard never returns, no results file is written, and
\* the only way the run ends is an exception handed to the caller.
C14_EmptyRegistryFails ==
    RegistryEmpty =>
        /\ pc \in {"idle", "loop", "render", "raised"}
        /\ saved = <<>>
        /\ pc = "raised" => exc = "ValueError"
        /\ pc = "render" => ENABLED RenderRaises

\* The run over the empty registry has ended in the exception, nothing saved.
C14_Witness ==
    /\ RegistryEmpty
    /\ pc = "raised"
    /\ exc = "ValueError"
    /\ saved = <<>>

\* What yfinance does for a symbol in the World of the run.
PriceOutcome(symbol) ==
    IF symbol \in DOMAIN Worlds[world].prices
    THEN Worlds[world].prices[symbol] ELSE "empty"

\* C15: the price lookup neither blocks nor alters the aggregation.  Whether
\* yfinance returns data, returns nothing or raises, the summary is produced
\* (once the articles are scored the summary step can always be taken and
\* raises nothing) from the same evidence, with the mean and the label of that
\* evidence; price_data is the data when there is some and None when the
\* history is empty or the lookup fails; no lookup is made for a SaaS entity,
\* whose price_data is None even where yfinance would have data.
C15_PriceLookupIsolated ==
    /\ \A k \in 1..Len(AllResults) :
           LET r == AllResults[k] IN
           /\ r.type = "saas" => r.price_data = "None"
           /\ r.type = "stock" =>
                  r.price_data = (IF PriceOutcome(r.entity) = "data"
                                  THEN "data" ELSE "None")
    /\ (pc = "score" /\ art > Len(all_news)) => ENABLED FinishEntity
    /\ JustAnalysed =>
           LET r == LastResult
               n == Len(sentiments)
           IN  /\ exc = "none"
               /\ r.entity = CurrentList[idx - 1]
               /\ r.sentiments = sentiments
               /\ r.avg_sentiment.den > 0
               /\ r.avg_sentiment.num * (IF n = 0 THEN 1 ELSE n)
                      = OverallUpTo(sentiments, n) * r.avg_sentiment.den
               /\ r.sentiment_label = get_sentiment_label(r.avg_sentiment)

\* One run holds two stock summaries with evidence: for one the lookup raised
\* and price_data is None, for the other it returned data.
C15_Witness ==
    /\ \E k \in 1..Len(stock_results) :
           /\ PriceOutcome(stock_results[k].entity) = "error"
           /\ stock_results[k].price_data = "None"
           /\ Len(stock_results[k].sentiments) > 0
    /\ \E k \in 1..Len(stock_results) :
           /\ PriceOutcome(stock_results[k].entity) = "data"
           /\ stock_results[k].price_data = "data"
           /\ Len(stock_results[k].sentiments) > 0

\* The names of all configured feeds.
AllSources ==
    {financial_feeds[i] : i \in 1..Len(financial_feeds)}
        \cup {saas_feeds[i] : i \in 1..Len(saas_feeds)}

\* The record of the written mapping agrees with the summary r.
SavedAgrees(rec, r) ==
    /\ rec.entity = r.entity
    /\ rec.num_articles = Len(r.sentiments)
    /\ rec.sources =
           {s \in AllSources :
                \E i \in 1..Len(r.sentiments) : r.sentiments[i].article.source = s}
    /\ Len(r.sentiments) = 0 => rec.sources = {}
    /\ Cardinality(rec.sources) <= rec.num_articles

\* C16: in the mapping written by _save_results every entity record's sources
\* is exactly the set of the distinct source names of the entity's scored
\* articles, and its num_articles is their number; an entity without
\* articles has the empty set and 0.  One file is written, with one record
\* per summary, in order.
C16_SavedSourcesAndCount ==
    pc = "done" =>
        /\ Len(saved) = 1
        /\ DOMAIN saved[1].stock_results = 1..Len(stock_results)
        /\ DOMAIN saved[1].saas_results = 1..Len(saas_results)
        /\ \A k \in 1..Len(stock_results) :
               SavedAgrees(saved[1].stock_results[k], stock_results[k])
        /\ \A k \in 1..Len(saas_results) :
               SavedAgrees(saved[1].saas_results[k], saas_results[k])

\* The written mapping holds an entity with more articles than sources, from
\* several sources, and an entity with none.
C16_Witness ==
    /\ pc = "done"
    /\ \E k \in 1..Len(stock_results) :
           /\ saved[1].stock_results[k].num_articles = 4
           /\ saved[1].stock_results[k].sources
                  = {"Yahoo Finance", "Reuters Business", "Financial Times"}
    /\ \E k \in 1..Len(stock_results) :
           /\ saved[1].stock_results[k].num_articles = 0
           /\ saved[1].stock_results[k].sources = {}

\* C17: every run terminates, no fetch of a source blocks for ever: each
\* call of feedparser.parse returns or times out, so a run that has not ended
\* (by returning or by an exception) always has a next step.
C17_NoFetchBlocks ==
    /\ pc # "blocked"
    /\ pc \notin {"done", "raised", "call", "returned"} => ENABLED Next

\* The lower-cased ticker occurs in the lower-cased title or summary.
TickerMatch(entry, entity) ==
    \/ In(lower(Chars[entity]), lower(entry.title))
    \/ In(lower(Chars[entity]), lower(Get(entry, "summary", <<>>)))

\* The entry names the company by a name of the company_names table, and
\* does not hold the ticker.
NamedOnly(entry, entity) ==
    /\ "title" \in DOMAIN entry
    /\ entity \in DOMAIN company_names
    /\ \E i \in 1..Len(company_names[entity]) :
           \/ In(company_names[entity][i], lower(entry.title))
           \/ In(company_names[entity][i], lower(Get(entry, "summary", <<>>)))
    /\ ~TickerMatch(entry, entity)

\* C18: the company names are added for the stock category only.  A SaaS
\* entity has its lower-cased ticker as its one variant, and an examined
\* entry (of a feed that did not raise) is matched iff the ticker occurs in
\* its lower-cased title or summary: an entry that only names the company
\* ("zoom" for ZM, "salesforce" for CRM) is not matched.
C18_SaasMatchedByTickerOnly ==
    (InAnalysis /\ CurrentType = "saas") =>
        /\ entity_variants(CurrentEntity, CurrentType)
               = <<lower(Chars[CurrentEntity])>>
        /\ \A source \in DoneFeeds \ raised :
               \A k \in 1..Len(Examined(source)) :
                   LET entry == Examined(source)[k] IN
                   /\ InNews(entry, source) <=> TickerMatch(entry, CurrentEntity)
                   /\ NamedOnly(entry, CurrentEntity) => ~InNews(entry, source)

\* CRM as a SaaS entity: the entry "Salesforce buys" of a feed fetched
\* without failure was examined and is not among the matched articles, while
\* another entry of that feed, holding "crm", is.
C18_Witness ==
    /\ InAnalysis
    /\ CurrentType = "saas"
    /\ CurrentEntity = "CRM"
    /\ \E source \in DoneFeeds \ raised :
           /\ \E k \in 1..Len(Examined(source)) :
                  /\ NamedOnly(Examined(source)[k], "CRM")
                  /\ In(<<"s", "a", "l", "e", "s", "f", "o", "r", "c", "e">>,
                        lower(Examined(source)[k].title))
                  /\ ~InNews(Examined(source)[k], source)
           /\ \E k \in 1..Len(Examined(source)) :
                  /\ TickerMatch(Examined(source)[k], "CRM")
                  /\ InNews(Examined(source)[k], source)

\* The place of a source among the feeds of a category, and of an entry, by
\* its link, among the entries of the source's feed.
FeedIndex(source, feeds) ==
    CHOOSE i \in 1..Len(feeds) : feeds[i] = source

EntryIndex(source, link) ==
    LET entries == Worlds[world].web[source]
    IN  CHOOSE k \in 1..Len(entries) :
            "link" \in DOMAIN entries[k] /\ entries[k].link = link

\* Article a comes before article b: from an earlier feed, or from the same
\* feed and an earlier entry of it.
ComesBefore(a, b, feeds) ==
    \/ FeedIndex(a.source, feeds) < FeedIndex(b.source, feeds)
    \/ /\ a.source = b.source
       /\ EntryIndex(a.source, a.link) < EntryIndex(b.source, b.link)

\* The articles are in fetch order.
InFetchOrder(articles, feeds) ==
    \A i, j \in 1..Len(articles) :
        i < j => ComesBefore(articles[i], articles[j], feeds)

EvidenceArticles(ss) == [i \in 1..Len(ss) |-> ss[i].article]

\* The matched articles, the scored articles and every summary's evidence
\* are in fetch order, and the scored articles are the matched ones in order.
C19_InOrder ==
    /\ InAnalysis =>
           /\ InFetchOrder(all_news, CurrentFeeds)
           /\ Len(sentiments) <= Len(all_news)
           /\ \A i \in 1..Len(sentiments) : sentiments[i].article = all_news[i]
    /\ \A k \in 1..Len(AllResults) :
           InFetchOrder(EvidenceArticles(AllResults[k].sentiments),
                        FeedsOf(AllResults[k].type))

\* A step of the run leaves every summary made so far as it is, evidence and
\* all, and in its place: summaries are only added at the end.
C19_Stable ==
    /\ Len(stock_results') >= Len(stock_results)
    /\ Len(saas_results') >= Len(saas_results)
    /\ \A k \in 1..Len(stock_results) : stock_results'[k] = stock_results[k]
    /\ \A k \in 1..Len(saas_results) : saas_results'[k] = saas_results[k]

\* C19: an entity's evidence keeps the order in which the items were matched
\* and scored (the sources in configured order, within a source the order of
\* the feed's entries), and neither the aggregation nor the panels that rank
\* nor the saving re-sort or change it.
C19_EvidenceOrderKept == []C19_InOrder /\ [][C19_Stable]_vars

\* The run has drawn its panels and saved, and holds a summary with four
\* scored articles from three feeds, two of them from one feed.
C19_Witness ==
    /\ pc = "done"
    /\ \E k \in 1..Len(stock_results) :
           LET ss == stock_results[k].sentiments IN
           /\ Len(ss) = 4
           /\ ss[1].article.source = ss[2].article.source
           /\ ss[2].article.source # ss[3].article.source
           /\ ss[3].article.source # ss[4].article.source
           /\ EntryIndex(ss[1].article.source, ss[1].article.link) > 1

\* How many of the articles come from that entry of that source.
TimesIn(articles, source, link) ==
    Cardinality({i \in 1..Len(articles) :
                    articles[i].source = source /\ articles[i].link = link})

\* How many variants of the entity occur in the entry.
VariantsIn(entry, entity, entity_type) ==
    LET aliases == entity_variants(entity, entity_type)
    IN  Cardinality({i \in 1..Len(aliases) :
            \/ In(aliases[i], lower(entry.title))
            \/ In(aliases[i], lower(Get(entry, "summary", <<>>)))})

\* C20: an entry in which several variants of the entity occur counts as one
\* match: every entry of a source is at most once among the entity's matched
\* articles (exactly once when it is one of the entries looked at, it matches
\* and its feed did not raise), and at most once in the evidence of any
\* summary.
C20_OneMatchPerEntry ==
    /\ InAnalysis =>
           \A source \in DoneFeeds :
               \A k \in 1..Len(Worlds[world].web[source]) :
                   LET entry == Worlds[world].web[source][k] IN
                   "link" \in DOMAIN entry =>
                       /\ TimesIn(all_news, source, entry.link) <= 1
                       /\ (/\ source \notin raised
                           /\ k <= MaxEntries
                           /\ VariantsIn(entry, CurrentEntity, CurrentType) >= 1)
                              => TimesIn(all_news, source, entry.link) = 1
    /\ \A n \in 1..Len(AllResults) :
           LET articles == EvidenceArticles(AllResults[n].sentiments) IN
           \A i \in 1..Len(articles) :
               TimesIn(articles, articles[i].source, articles[i].link) = 1

\* An entry in which two variants of AAPL occur ("iphone" in the title,
\* "apple" in the summary) is among the matched articles, once.
C20_Witness ==
    /\ InAnalysis
    /\ CurrentEntity = "AAPL"
    /\ \E source \in DoneFeeds \ raised :
           \E k \in 1..Len(Examined(source)) :
               /\ VariantsIn(Examined(source)[k], "AAPL", CurrentType) >= 2
               /\ TimesIn(all_news, source, Examined(source)[k].link) = 1

\* The names of the feeds of a feed set.
FeedNames(feeds) == {feeds[i] : i \in 1..Len(feeds)}

\* The summary r of the k-th entity of a registry list holds evidence only
\* from the feed set given, each item carrying the entity's id.
EvidenceOwn(r, entity, entity_type, feeds) ==
    /\ r.entity = entity
    /\ r.type = entity_type
    /\ \A i \in 1..Len(r.sentiments) :
           /\ r.sentiments[i].article.source \in FeedNames(feeds)
           /\ r.sentiments[i].article.entity = entity

\* C21: every evidence item of an entity comes from a feed configured for the
\* entity's category (stocks: the financial feeds, SaaS: the SaaS feeds) and
\* carries the id of the entity of its summary; so do the matched articles
\* while the entity is analysed.
C21_EvidenceFromOwnCategory ==
    /\ pc \notin {"call", "returned"} =>
           /\ \A k \in 1..Len(stock_results) :
                  EvidenceOwn(stock_results[k], tracked_entities.stocks[k],
                              "stock", financial_feeds)
           /\ \A k \in 1..Len(saas_results) :
                  EvidenceOwn(saas_results[k], tracked_entities.saas[k],
                              "saas", saas_feeds)
    /\ InAnalysis =>
           \A i \in 1..Len(all_news) :
               /\ all_news[i].entity = CurrentList[idx]
               /\ all_news[i].source \in
                      FeedNames(IF category = "stocks"
                                THEN financial_feeds ELSE saas_feeds)

\* A finished run holds a stock summary and a SaaS summary, both with
\* evidence.
C21_Witness ==
    /\ pc = "done"
    /\ \E k \in 1..Len(stock_results) : Len(stock_results[k].sentiments) > 0
    /\ \E k \in 1..Len(saas_results) : Len(saas_results[k].sentiments) > 0

\* How many of the articles come from that source.
TimesFrom(articles, source) ==
    Cardinality({i \in 1..Len(articles) : articles[i].source = source})

\* The articles all come from the first 20 entries of their feeds, at most 20
\* of them from any one source and at most 20 times the number of feeds in
\* all.
WithinFirstTwenty(articles, feeds) ==
    /\ \A i \in 1..Len(articles) :
           EntryIndex(articles[i].source, articles[i].link) <= 20
    /\ \A source \in FeedNames(feeds) : TimesFrom(articles, source) <= 20
    /\ Len(articles) <= 20 * Len(feeds)

\* C22: for each entity and source only the first 20 entries of the fetched
\* feed are examined: an entry beyond position 20 is never among the matched
\* articles or the evidence, and an entity's number of articles, as held and
\* as saved, never exceeds 20 times the number of feeds of its category.
C22_FirstTwentyOnly ==
    /\ InAnalysis =>
           WithinFirstTwenty(all_news, IF category = "stocks"
                                       THEN financial_feeds ELSE saas_feeds)
    /\ \A k \in 1..Len(stock_results) :
           WithinFirstTwenty(EvidenceArticles(stock_results[k].sentiments),
                             financial_feeds)
    /\ \A k \in 1..Len(saas_results) :
           WithinFirstTwenty(EvidenceArticles(saas_results[k].sentiments),
                             saas_feeds)
    /\ pc = "done" =>
           /\ \A k \in 1..Len(stock_results) :
                  saved[1].stock_results[k].num_articles
                      <= 20 * Len(financial_feeds)
           /\ \A k \in 1..Len(saas_results) :
                  saved[1].saas_results[k].num_articles <= 20 * Len(saas_feeds)

\* A summary holds exactly 20 articles of a feed that was fetched without
\* failure and whose 21st entry names the entity too, and none of another
\* feed whose 21st entry is its only one naming the entity.
C22_Witness ==
    \E k \in 1..Len(stock_results), s1, s2 \in FeedNames(financial_feeds) :
        LET r == stock_results[k]
            articles == EvidenceArticles(r.sentiments)
            e1 == Worlds[world].web[s1]
            e2 == Worlds[world].web[s2]
        IN  /\ Len(e1) > 20
            /\ VariantsIn(e1[21], r.entity, "stock") >= 1
            /\ TimesFrom(articles, s1) = 20
            /\ Len(e2) > 20
            /\ VariantsIn(e2[21], r.entity, "stock") >= 1
            /\ TimesFrom(articles, s2) = 0

\* C23: for results that are not empty, the category the market gauge
\* highlights is the label the classifier gives to the same score, the mean
\* of avg_sentiment over the entities that have articles, also when that
\* score is exactly 0.1, 0.3, -0.1 or -0.3, and it is Neutral when no entity
\* has articles.
C23_GaugeIsLabel ==
    (pc = "returned" /\ arg # <<>>) =>
        ret = (IF \A k \in 1..Len(arg) : arg[k].sentiments = <<>>
               THEN "Neutral"
               ELSE get_sentiment_label(MeanAvg(WithArticles(arg))))

====
